---- MODULE Spec2Model ----
(***************************************************************************)
(* Model of the resampling / confidence-interval / contrast engine of      *)
(* bootstrapContrast.py: bootstrap, bootstrap_contrast and the delta       *)
(* computation of pairedcontrast.                                          *)
(*                                                                         *)
(* Numbers.  Observations are integers.  A statistic of a sample is kept   *)
(* exactly, as the integer Scale * f(sample); Scale is a common multiple   *)
(* of every sample length that occurs, so the mean and the median of every *)
(* sample are integers in units of 1/Scale.  Standard-normal deviates are  *)
(* kept in thousandths, normal probabilities in millionths, the            *)
(* acceleration in ten-thousandths.  IEEE infinities and NaN are explicit  *)
(* kinds of the records that carry such values.                            *)
(***************************************************************************)
EXTENDS Integers, Sequences, FiniteSets, TLC

VARIABLES pc, call, drawn, internals, result, raised, previous, np_random, objects,
          rcParams

vars == <<pc, call, drawn, internals, result, raised, previous, np_random, objects, rcParams>>

(***************************************************************************)
(* Bounds of the model.                                                    *)
(***************************************************************************)
MaxLen == 3

MaxReps == 3

(***************************************************************************)
(* Integer helpers.                                                        *)
(***************************************************************************)
Abs(n) == IF n < 0 THEN 0 - n ELSE n

Max2(a, b) == IF a >= b THEN a ELSE b

Sign(n) == IF n < 0 THEN 0 - 1 ELSE IF n > 0 THEN 1 ELSE 0

\* Quotient truncated toward zero, for any signs (d # 0).
Quot(n, d) == Sign(n) * Sign(d) * (Abs(n) \div Abs(d))

RECURSIVE GCD(_, _)
GCD(a, b) == IF b = 0 THEN Abs(a) ELSE GCD(b, a % Abs(b))

LCM(a, b) == (a * b) \div GCD(a, b)

RECURSIVE LCMUpTo(_)
LCMUpTo(n) == IF n <= 1 THEN 1 ELSE LCM(n, LCMUpTo(n - 1))

\* Statistics are held as Scale * value.
Scale == LCMUpTo(Max2(MaxLen, MaxReps))

RECURSIVE SumSeq(_)
SumSeq(s) == IF s = <<>> THEN 0 ELSE Head(s) + SumSeq(Tail(s))

RECURSIVE GCDSeq(_)
GCDSeq(s) == IF s = <<>> THEN 0 ELSE GCD(Head(s), GCDSeq(Tail(s)))

RECURSIVE Insert(_, _)
Insert(v, s) ==
  IF s = <<>> THEN <<v>>
  ELSE IF v <= Head(s) THEN <<v>> \o s
  ELSE <<Head(s)>> \o Insert(v, Tail(s))

\* ndarray.sort(): the elements in ascending order.
RECURSIVE SortAsc(_)
SortAsc(s) == IF s = <<>> THEN <<>> ELSE Insert(Head(s), SortAsc(Tail(s)))

IsSorted(s) == \A i \in 1..(Len(s) - 1) : s[i] <= s[i + 1]

\* The multiset of a sequence, as element -> number of occurrences.
CountOf(s, v) == Cardinality({i \in 1..Len(s) : s[i] = v})

SameElements(s, t) ==
  /\ Len(s) = Len(t)
  /\ \A i \in 1..Len(s) : CountOf(s, s[i]) = CountOf(t, s[i])

\* The sequence s with every element evaluated, as a tuple.
Tup(s) == SubSeq(s, 1, Len(s))

\* s without its i-th element.
RemoveAt(s, i) == SubSeq(s, 1, i - 1) \o SubSeq(s, i + 1, Len(s))

\* Largest r with r * r <= n, by bisection on lo..hi.
RECURSIVE ISqrtIn(_, _, _)
ISqrtIn(n, lo, hi) ==
  IF lo >= hi THEN lo
  ELSE LET mid == (lo + hi + 1) \div 2
       IN IF mid * mid <= n THEN ISqrtIn(n, mid, hi) ELSE ISqrtIn(n, lo, mid - 1)

ISqrt(n) == ISqrtIn(n, 0, 46340)

\* np.round: round half to even, of the rational n/d with d > 0.
RoundHalfEven(n, d) ==
  LET q == n \div d
      r2 == 2 * (n % d)
  IN IF r2 < d THEN q
     ELSE IF r2 > d THEN q + 1
     ELSE IF q % 2 = 0 THEN q ELSE q + 1

(***************************************************************************)
(* Statistic functions.  np.mean (the default) and np.median, each giving  *)
(* Scale * f(s) for a non-empty s whose length divides Scale.              *)
(***************************************************************************)
StatFunctions == {"mean", "median"}

Mean(s) == (SumSeq(s) * Scale) \div Len(s)

Median(s) ==
  LET t == SortAsc(s)
      n == Len(s)
  IN IF n % 2 = 1 THEN t[(n + 1) \div 2] * Scale
     ELSE ((t[n \div 2] + t[(n \div 2) + 1]) * Scale) \div 2

\* Mutant: the statfunction argument is ignored and the default is used.
StatAlwaysMean(f, s) == Mean(s)

Stat(f, s) == IF f = "mean" THEN Mean(s) ELSE Median(s)

(***************************************************************************)
(* Extended reals (thousandths) and probabilities (exact rationals n/d).   *)
(*   "tiny" is a positive probability below the double-precision spacing   *)
(*   at 1.0 (the model's instance: 5e-61, half of alpha = 1e-60).          *)
(***************************************************************************)
Fin(v) == [k |-> "fin", v |-> v]

PosInf == [k |-> "pinf", v |-> 0]

NegInf == [k |-> "ninf", v |-> 0]

NaN == [k |-> "nan", v |-> 0]

Prob(n, d) == [k |-> "fin", n |-> n, d |-> d]

TinyProb == [k |-> "tiny", n |-> 0, d |-> 1]

NaNProb == [k |-> "nan", n |-> 0, d |-> 1]

(***************************************************************************)
(* scipy.stats.norm.  cdf is tabulated at z = 0, 0.25, ..., 5 (millionths) *)
(* and interpolated linearly; ppf is the inverse of that interpolation.    *)
(***************************************************************************)
PhiKnots ==
  <<500000, 598706, 691462, 773373, 841345, 894350, 933193, 959941,
    977250, 987776, 993790, 997020, 998650, 999423, 999767, 999912,
    999968, 999989, 999997, 999999, 1000000>>

\* norm.cdf(z) for a finite z >= 0 in thousandths, in millionths.
CdfPos(z) ==
  IF z >= 5000 THEN 1000000
  ELSE LET i == (z \div 250) + 1
       IN PhiKnots[i] + (((PhiKnots[i + 1] - PhiKnots[i]) * (z % 250)) \div 250)

\* norm.cdf of an extended real, in millionths (NaN stays NaN).
NormCdf(x) ==
  IF x.k = "nan" THEN NaN
  ELSE IF x.k = "pinf" THEN Fin(1000000)
  ELSE IF x.k = "ninf" THEN Fin(0)
  ELSE IF x.v >= 0 THEN Fin(CdfPos(x.v))
  ELSE Fin(1000000 - CdfPos(0 - x.v))

\* norm.ppf(n/d) for 1/2 <= n/d < 1, in thousandths.
PpfUpper(n, d) ==
  LET i == CHOOSE j \in 1..(Len(PhiKnots) - 1) :
             /\ PhiKnots[j] * d <= n * 1000000
             /\ n * 1000000 < PhiKnots[j + 1] * d
  IN (250 * (i - 1))
       + ((250 * ((n * 1000000) - (PhiKnots[i] * d)))
            \div ((PhiKnots[i + 1] - PhiKnots[i]) * d))

\* norm.ppf of a probability: -inf at 0, +inf at 1, NaN outside [0, 1].
NormPpf(p) ==
  IF p.k = "nan" THEN NaN
  ELSE IF p.k = "tiny" THEN Fin(0 - 16440)
  ELSE IF p.n < 0 \/ p.n > p.d THEN NaN
  ELSE IF p.n = 0 THEN NegInf
  ELSE IF p.n = p.d THEN PosInf
  ELSE IF 2 * p.n >= p.d THEN Fin(PpfUpper(p.n, p.d))
  ELSE Fin(0 - PpfUpper(p.d - p.n, p.d))

(***************************************************************************)
(* The significance level alpha, as passed by the caller.                  *)
(***************************************************************************)
Alphas ==
  { Prob(1, 20),    \* 0.05, the default
    Prob(1, 2),     \* 0.5
    TinyProb,       \* 1e-60: inside (0,1), but 1 - alpha/2 rounds to 1.0
    Prob(3, 1),     \* 3: outside (0,1)
    NaNProb }       \* float('nan')

DefaultAlpha == Prob(1, 20)

\* alpha lies in the open interval (0, 1).
ValidAlpha(alpha) ==
  \/ alpha.k = "tiny"
  \/ alpha.k = "fin" /\ 0 < alpha.n /\ alpha.n < alpha.d

\* alphas = np.array([alpha/2, 1-alpha/2]), in double precision.
TwoSidedAlphas(alpha) ==
  IF alpha.k = "nan" THEN <<NaNProb, NaNProb>>
  ELSE IF alpha.k = "tiny" THEN <<TinyProb, Prob(1, 1)>>
  ELSE <<Prob(alpha.n, 2 * alpha.d), Prob((2 * alpha.d) - alpha.n, 2 * alpha.d)>>

\* np.round((reps-1)*p): an integer-valued float, or NaN.
RoundScaled(p, reps) ==
  IF p.k = "nan" THEN NaN
  ELSE IF p.k = "tiny" THEN Fin(0)
  ELSE Fin(RoundHalfEven((reps - 1) * p.n, p.d))

\* np.nan_to_num(v).astype('int'): NaN becomes 0, nothing else changes.
NanToNumInt(x) == IF x.k = "nan" THEN 0 ELSE x.v

\* pct_low_high: the two percentile indices.
PctLowHigh(alpha, reps) ==
  LET alphas == TwoSidedAlphas(alpha)
  IN <<NanToNumInt(RoundScaled(alphas[1], reps)),
       NanToNumInt(RoundScaled(alphas[2], reps))>>

(***************************************************************************)
(* bca (bootstrap_tools): the bias-corrected and accelerated indices.      *)
(***************************************************************************)
\* z0 = ppf(#{resample_i < point estimate} / reps).
BiasCorrection(statarray, ostat, reps) ==
  NormPpf(Prob(Cardinality({i \in 1..Len(statarray) : statarray[i] < ostat}), reps))

\* The leave-one-out replicates of the statistic over the jackknife source.
JackknifeStats(source, f) ==
  Tup([i \in 1..Len(source) |-> Stat(f, RemoveAt(source, i))])

\* a = sum(d^3) / (6 * sum(d^2)^1.5), d_i = mean(jk) - jk_i, in
\* ten-thousandths; 0 when the denominator is 0; NaN when a replicate is
\* the statistic of an empty sample.
Acceleration(source, f) ==
  IF Len(source) <= 1 THEN NaN
  ELSE
    LET jk == JackknifeStats(source, f)
        n == Len(jk)
        tot == SumSeq(jk)
        dev == Tup([i \in 1..n |-> tot - (n * jk[i])])
        g == GCDSeq(dev)
    IN IF g = 0 THEN Fin(0)
       ELSE
         LET d == Tup([i \in 1..n |-> Quot(dev[i], g)])
             s3 == SumSeq(Tup([i \in 1..n |-> d[i] * d[i] * d[i]]))
             s2 == SumSeq(Tup([i \in 1..n |-> d[i] * d[i]]))
             root == ISqrt(s2 * 10000)
         IN Fin(Sign(s3) * ((((Abs(s3) * 100) \div s2) * 10000) \div (6 * root)))

\* One adjusted tail: cdf(z0 + zs/(1 - a*zs)) with zs = z0 + ppf(tail),
\* then np.round((reps-1)*.) and the NaN -> 0 guard, in IEEE arithmetic.
BcaIndex(z0, ztail, a, reps) ==
  IF z0.k = "nan" \/ ztail.k = "nan" \/ a.k = "nan" THEN 0
  ELSE IF z0.k # "fin" \/ ztail.k # "fin" THEN 0
       \* zs is infinite or inf - inf: a*zs is NaN (a = 0) or infinite, and
       \* zs/(1 - a*zs) is NaN either way.
  ELSE
    LET zs == z0.v + ztail.v
        den == 10000 - Quot(a.v * zs, 1000)
        x == IF den = 0
               THEN (IF zs > 0 THEN PosInf ELSE NegInf)
               ELSE Fin(z0.v + Quot(zs * 10000, den))
        aval == NormCdf(x)
    IN RoundHalfEven((reps - 1) * aval.v, 1000000)

Bca(source, alphas, statarray, f, ostat, reps) ==
  LET z0 == BiasCorrection(statarray, ostat, reps)
      a == Acceleration(source, f)
  IN <<BcaIndex(z0, NormPpf(alphas[1]), a, reps),
       BcaIndex(z0, NormPpf(alphas[2]), a, reps)>>

(***************************************************************************)
(* sb.algorithms.bootstrap(data, func, n_boot, smooth): n_boot statistics, *)
(* each of one resample of len(data) observations.                         *)
(***************************************************************************)
\* The statistics of the resamples drawn with replacement from data.
ResampleStats(data, f) ==
  {Stat(f, Tup([i \in 1..Len(data) |-> data[ix[i]]])) :
     ix \in [1..Len(data) -> 1..Len(data)]}

\* Resampling from a kernel density estimate: each observation is
\* jittered, so a statistic may fall on, below or above those of the data.
SmoothStats(data, f) ==
  LET lo == CHOOSE v \in ResampleStats(data, f) :
              \A w \in ResampleStats(data, f) : v <= w
      hi == CHOOSE v \in ResampleStats(data, f) :
              \A w \in ResampleStats(data, f) : v >= w
  IN {lo - 1, Stat(f, data), hi + 1}

\* Every array the library call may return.
BootDists(data, f, reps, smooth) ==
  [1..reps -> IF smooth THEN SmoothStats(data, f) ELSE ResampleStats(data, f)]

(***************************************************************************)
(* Python / numpy indexing with an integer index.                          *)
(***************************************************************************)
IndexInRange(i, n) == (0 - n) <= i /\ i <= n - 1

\* arr[i]: a negative index counts from the end.
PyGet(arr, i) == IF i >= 0 THEN arr[i + 1] ELSE arr[Len(arr) + i + 1]

(***************************************************************************)
(* The warnings loop: one warning at most per index pair.                  *)
(***************************************************************************)
MsgExtremal == "Some values used extremal samples results are probably unstable."

MsgTop10 == "Some values used top 10 low/high samples results may be unstable."

\* Mutant: the marginal branch of the warnings test is dropped.
WarningForExtremalOnly(ind, reps) ==
  IF \E j \in 1..2 : ind[j] = 0 \/ ind[j] = reps - 1
    THEN <<[message |-> MsgExtremal, category |-> "UserWarning"]>>
  ELSE <<>>

\* Mutant: the two branches of the warnings test are exchanged.
WarningForMarginalFirst(ind, reps) ==
  IF \E j \in 1..2 : ind[j] < 10 \/ ind[j] >= reps - 10
    THEN <<[message |-> MsgTop10, category |-> "UserWarning"]>>
  ELSE IF \E j \in 1..2 : ind[j] = 0 \/ ind[j] = reps - 1
    THEN <<[message |-> MsgExtremal, category |-> "UserWarning"]>>
  ELSE <<>>

WarningFor(ind, reps) ==
  IF \E j \in 1..2 : ind[j] = 0 \/ ind[j] = reps - 1
    THEN <<[message |-> MsgExtremal, category |-> "UserWarning"]>>
  ELSE IF \E j \in 1..2 : ind[j] < 10 \/ ind[j] >= reps - 10
    THEN <<[message |-> MsgTop10, category |-> "UserWarning"]>>
  ELSE <<>>

StabilityWarnings(pct, bca, reps) == WarningFor(pct, reps) \o WarningFor(bca, reps)

\* warnings.filterwarnings("ignore") at import: the action the process-wide
\* filter applies to every warning issued afterwards.
WarningsFilter == "ignore"

\* What warnings.warn lets through to the caller (shown, or recorded by
\* the caller's catch_warnings) under the filter action.
Delivered(action, issued) == IF action = "ignore" THEN <<>> ELSE issued

(***************************************************************************)
(* bootstrap(data, statfunction, smoothboot, alpha, reps), given the array *)
(* boot that the resampler returned.                                       *)
(***************************************************************************)
BootstrapKeys ==
  <<"summary", "statistic", "bootstrap_reps", "pct_ci_low", "pct_ci_high",
    "bca_ci_low", "bca_ci_high", "stat_array", "pct_low_high_indices",
    "bca_low_high_indices">>

NoResult == [keys |-> <<>>]

NoInternals == [fn |-> "none"]

\* Mutant: the resample distribution is left as drawn.
BootstrapNoSort(boot) == boot

\* statarray.sort()
BootstrapSort(boot) == SortAsc(boot)

\* The data handed to bca as the jackknife source: tdata = (data,).
BootstrapJackSource(data) == data

\* The warnings loop and the result: the bounds are read from the sorted
\* array at the four indices; an index outside -reps..reps-1 raises.
BootstrapResult(f, reps, alphas, ostat, statarray, pct, source, bca) ==
  LET inner == [fn |-> "bootstrap", alphas |-> alphas, ostat |-> ostat,
                sorted |-> statarray, pct |-> pct, bca |-> bca,
                jack_source |-> source,
                warnings |-> StabilityWarnings(pct, bca, reps),
                shown |-> Delivered(WarningsFilter, StabilityWarnings(pct, bca, reps))]
  IN IF ~(\A j \in 1..2 : IndexInRange(pct[j], reps) /\ IndexInRange(bca[j], reps))
       THEN [raised |-> "IndexError", internals |-> inner, result |-> NoResult]
       ELSE [raised |-> "none", internals |-> inner,
             result |->
               [keys |-> BootstrapKeys,
                summary |-> ostat,
                statistic |-> f,
                bootstrap_reps |-> reps,
                pct_ci_low |-> PyGet(statarray, pct[1]),
                pct_ci_high |-> PyGet(statarray, pct[2]),
                bca_ci_low |-> PyGet(statarray, bca[1]),
                bca_ci_high |-> PyGet(statarray, bca[2]),
                stat_array |-> statarray,
                pct_low_high_indices |-> pct,
                bca_low_high_indices |-> bca]]

\* bca_low_high = bca(tdata, alphas, statarray, statfunction, ostat, reps)
BootstrapBca(f, reps, alphas, ostat, statarray, pct, source) ==
  BootstrapResult(f, reps, alphas, ostat, statarray, pct, source,
                  Bca(source, alphas, statarray, f, ostat, reps))

\* alphas, ostat, the sorted statarray and pct_low_high, then the rest.
BootstrapRun(data, f, alpha, reps, boot) ==
  BootstrapBca(f, reps, TwoSidedAlphas(alpha), Stat(f, data), BootstrapSort(boot),
               PctLowHigh(alpha, reps), BootstrapJackSource(data))

\* What the resampler does with a sample of no observations.  With smooth =
\* True the kernel density estimate of an empty dataset raises ValueError.
\* With smooth = False the library draws randint(0, 0, 0), which raises
\* ValueError ("low >= high") or, in numpy builds that return early for an
\* empty size, gives no indices: every resample is then empty and its
\* statistic is NaN.
EmptyOutcomes(smooth) == IF smooth THEN {"ValueError"} ELSE {"ValueError", "nan"}

\* bootstrap of an empty sample: ostat = statfunction of nothing = NaN (a
\* RuntimeWarning, not an error), then the resampler raises, or returns
\* reps NaNs; bca of those has z0 = ppf(0) = -inf and a = NaN.
BootstrapEmptyRun(f, alpha, reps, outcome) ==
  IF outcome = "ValueError"
    THEN [raised |-> "ValueError", result |-> NoResult,
          internals |-> [fn |-> "bootstrap_resampler_raised", ostat |-> NaN]]
    ELSE BootstrapResult(f, reps, TwoSidedAlphas(alpha), NaN,
                         Tup([i \in 1..reps |-> NaN]), PctLowHigh(alpha, reps), <<>>,
                         <<BcaIndex(NegInf, NormPpf(TwoSidedAlphas(alpha)[1]), NaN, reps),
                           BcaIndex(NegInf, NormPpf(TwoSidedAlphas(alpha)[2]), NaN, reps)>>)

(***************************************************************************)
(* Tables (pandas DataFrames): a sequence of rows, each with the subject   *)
(* id, the group label x and the observation y.  Group labels are encoded  *)
(* as integers: 0..9 are integer labels, 10, 11, 12 stand for the string   *)
(* labels 'a', 'b', 'c'.                                                   *)
(***************************************************************************)
Row(id, x, y) == [id |-> id, x |-> x, y |-> y]

IsStr(label) == label >= 10

\* data[x].unique(): the labels in order of first appearance.
RECURSIVE Unique(_)
Unique(s) ==
  IF s = <<>> THEN <<>>
  ELSE LET init == Unique(SubSeq(s, 1, Len(s) - 1))
           last == s[Len(s)]
       IN IF \E i \in 1..Len(init) : init[i] = last THEN init ELSE Append(init, last)

Levels(data) == Unique([i \in 1..Len(data) |-> data[i].x])

\* np.array(data.ix[data[x] == level][y]): the observations of one group,
\* in row order.
RECURSIVE GroupArray(_, _)
GroupArray(data, level) ==
  IF data = <<>> THEN <<>>
  ELSE IF Head(data).x = level
    THEN <<Head(data).y>> \o GroupArray(Tail(data), level)
    ELSE GroupArray(Tail(data), level)

\* Mutant: an entry is taken as a position first, and as a label only
\* when it is no valid position.
RECURSIVE ArrayListPositionFirst(_, _)
ArrayListPositionFirst(data, idx) ==
  IF idx = <<>> THEN <<>>
  ELSE
    LET levels == Levels(data)
        i == Head(idx)
        rest == ArrayListPositionFirst(data, Tail(idx))
    IN IF i \in 0..(Len(levels) - 1)
         THEN <<GroupArray(data, levels[i + 1])>> \o rest
       ELSE IF \E j \in 1..Len(levels) : levels[j] = i
         THEN <<GroupArray(data, i)>> \o rest
       ELSE rest

\* The loop over idx: an entry that is a label selects that group, else an
\* entry that is a position selects the group at that position, else the
\* entry adds nothing.
RECURSIVE ArrayList(_, _)
ArrayList(data, idx) ==
  IF idx = <<>> THEN <<>>
  ELSE
    LET levels == Levels(data)
        i == Head(idx)
        rest == ArrayList(data, Tail(idx))
    IN IF \E j \in 1..Len(levels) : levels[j] = i
         THEN <<GroupArray(data, i)>> \o rest
       ELSE IF i \in 0..(Len(levels) - 1)
         THEN <<GroupArray(data, levels[i + 1])>> \o rest
       ELSE rest

\* The idx argument: None, or the entries the caller lists.
NoIdx == [given |-> FALSE, entries |-> <<>>]

Idx(entries) == [given |-> TRUE, entries |-> entries]

\* if idx == None: idx = [0,1]
ContrastIdx(idx) == IF idx.given THEN idx.entries ELSE <<0, 1>>

(***************************************************************************)
(* scipy.stats tests.  The value a test returns is a library value: the    *)
(* t-test p-value is kept as the term "p-value of ttest_ind on these two   *)
(* arrays"; the Mann-Whitney p-value is a probability in thousandths that  *)
(* the library chooses.                                                    *)
(***************************************************************************)
TTestInd(a, b) == [test |-> "ttest_ind", sided |-> "two-sided", args |-> <<a, b>>]

MannWhitneyPValues == {0, 500, 1000}

\* ttest_ind(arraylist[0], arraylist[1])
ContrastTTest(arraylist) == TTestInd(arraylist[1], arraylist[2])

\* The arrays handed to mannwhitneyu.
ContrastMannWhitneyArgs(arraylist) == <<arraylist[1], arraylist[2]>>

\* Mutant: the library p-value is stored as returned.
NotDoubledPValue(p) == p

\* mannwhitneyresult[1] * 2
DoubledPValue(p) == p * 2

(***************************************************************************)
(* bootstrap_contrast(data, idx, x, y, statfunction, smoothboot, alpha,    *)
(* reps), given the two arrays the resampler returned and the library's    *)
(* Mann-Whitney p-value.                                                   *)
(***************************************************************************)
ContrastKeys ==
  <<"summary", "statistic", "bootstrap_reps", "pct_ci_low", "pct_ci_high",
    "bca_ci_low", "bca_ci_high", "diffarray", "pct_low_high_indices",
    "bca_low_high_indices", "statistic_ref", "statistic_exp", "ref_input",
    "test_input", "pvalue_ttest", "pvalue_mannWhitney">>

\* Mutant: the reference resamples minus the experimental ones.
DiffArrayRefMinusExp(ref_statarray, exp_statarray) ==
  Tup([i \in 1..Len(ref_statarray) |-> ref_statarray[i] - exp_statarray[i]])

\* diff_array = exp_statarray - ref_statarray
DiffArray(ref_statarray, exp_statarray) ==
  Tup([i \in 1..Len(ref_statarray) |-> exp_statarray[i] - ref_statarray[i]])

\* diff_array.sort()
ContrastSort(diff) == SortAsc(diff)

\* Mutant: the reference statistic minus the experimental one.
ContrastStatRefMinusExp(f, ref_array, exp_array) == Stat(f, ref_array) - Stat(f, exp_array)

\* Mutant: the size of the difference, without its sign.
ContrastStatMagnitude(f, ref_array, exp_array) == Abs(Stat(f, exp_array) - Stat(f, ref_array))

\* ostat = statfunction(exp_array) - statfunction(ref_array)
ContrastStat(f, ref_array, exp_array) == Stat(f, exp_array) - Stat(f, ref_array)

\* The data handed to bca as the jackknife source: diff_array_t, the tuple
\* holding the difference array (the same array object that is sorted).
ContrastJackSource(ref_array, exp_array, diff_array) == diff_array

\* The warnings loop, the two tests and the result.
ContrastResult(arraylist, f, reps, alphas, unsorted, diff_array, ostat, pct, source, bca, mwp) ==
  LET inner == [fn |-> "bootstrap_contrast", alphas |-> alphas, ostat |-> ostat,
                unsorted |-> unsorted, sorted |-> diff_array,
                pct |-> pct, bca |-> bca, jack_source |-> source,
                warnings |-> StabilityWarnings(pct, bca, reps),
                shown |-> Delivered(WarningsFilter, StabilityWarnings(pct, bca, reps)),
                ttest |-> ContrastTTest(arraylist),
                mannwhitney_args |-> ContrastMannWhitneyArgs(arraylist),
                mannwhitney_p |-> mwp]
  IN IF ~(\A j \in 1..2 : IndexInRange(pct[j], reps) /\ IndexInRange(bca[j], reps))
       THEN [raised |-> "IndexError", internals |-> inner, result |-> NoResult]
       ELSE [raised |-> "none", internals |-> inner,
             result |->
               [keys |-> ContrastKeys,
                summary |-> ostat,
                statistic |-> f,
                bootstrap_reps |-> reps,
                pct_ci_low |-> PyGet(diff_array, pct[1]),
                pct_ci_high |-> PyGet(diff_array, pct[2]),
                bca_ci_low |-> PyGet(diff_array, bca[1]),
                bca_ci_high |-> PyGet(diff_array, bca[2]),
                diffarray |-> diff_array,
                pct_low_high_indices |-> pct,
                bca_low_high_indices |-> bca,
                statistic_ref |-> Stat(f, arraylist[1]),
                statistic_exp |-> Stat(f, arraylist[2]),
                ref_input |-> arraylist[1],
                test_input |-> arraylist[2],
                pvalue_ttest |-> ContrastTTest(arraylist),
                pvalue_mannWhitney |-> DoubledPValue(mwp)]]

\* bca_low_high = bca(diff_array_t, alphas, diff_array, statfunction, ostat, reps)
ContrastBca(arraylist, f, reps, alphas, unsorted, diff_array, ostat, pct, source, mwp) ==
  ContrastResult(arraylist, f, reps, alphas, unsorted, diff_array, ostat, pct, source,
                 Bca(source, alphas, diff_array, f, ostat, reps), mwp)

\* diff_array.sort(), ostat, pct_low_high and the jackknife source.
ContrastSorted(arraylist, f, alpha, reps, unsorted, diff_array, mwp) ==
  ContrastBca(arraylist, f, reps, TwoSidedAlphas(alpha), unsorted, diff_array,
              ContrastStat(f, arraylist[1], arraylist[2]), PctLowHigh(alpha, reps),
              ContrastJackSource(arraylist[1], arraylist[2], diff_array), mwp)

\* diff_array = exp_statarray - ref_statarray
ContrastDiff(arraylist, f, alpha, reps, unsorted, mwp) ==
  ContrastSorted(arraylist, f, alpha, reps, unsorted, ContrastSort(unsorted), mwp)

ContrastRun(arraylist, f, alpha, reps, ref_statarray, exp_statarray, mwp) ==
  ContrastDiff(arraylist, f, alpha, reps, DiffArray(ref_statarray, exp_statarray), mwp)

(***************************************************************************)
(* pairedcontrast(data, x, y, idcol, reps, statfunction, idx, smoothboot): *)
(* the per-subject deltas of each (before, after) pair and their           *)
(* single-sample bootstrap.  The plotting between these steps is left out. *)
(***************************************************************************)
IdSet(data) == {data[i].id : i \in 1..Len(data)}

\* The observations of subject id in one group, in row order.
RECURSIVE CellValues(_, _, _)
CellValues(data, id, level) ==
  IF data = <<>> THEN <<>>
  ELSE IF Head(data).id = id /\ Head(data).x = level
    THEN <<Head(data).y>> \o CellValues(Tail(data), id, level)
    ELSE CellValues(Tail(data), id, level)

\* data.pivot_table(index = idcol, columns = x, values = y): the mean of the
\* subject's observations in the group (times the number of them, so that
\* it stays an integer), or NaN when the subject has none.
PivotCell(data, id, level) ==
  LET c == CellValues(data, id, level)
  IN IF c = <<>> THEN NaN ELSE Fin(SumSeq(c))

PivotWeight(data, id, level) == Max2(1, Len(CellValues(data, id, level)))

\* Subject i sorts before subject j in data_pivot.sort_values(by = level):
\* ascending by the cell, NaN last, ties by id.
PivotBefore(data, level, i, j) ==
  LET ci == PivotCell(data, i, level)
      cj == PivotCell(data, j, level)
      wi == PivotWeight(data, i, level)
      wj == PivotWeight(data, j, level)
  IN IF ci.k = "nan" /\ cj.k = "nan" THEN i < j
     ELSE IF ci.k = "nan" THEN FALSE
     ELSE IF cj.k = "nan" THEN TRUE
     ELSE \/ ci.v * wj < cj.v * wi
          \/ ci.v * wj = cj.v * wi /\ i < j

\* data_pivot.sort_values(by = level).index
PivotSortedIds(data, level) ==
  LET ids == IdSet(data)
  IN Tup([r \in 1..Cardinality(ids) |->
            CHOOSE i \in ids :
              Cardinality({j \in ids : PivotBefore(data, level, j, i)}) = r - 1])

\* The ids in ascending order: the index of the merged frame.
MergedIndex(data) ==
  LET ids == IdSet(data)
  IN Tup([r \in 1..Cardinality(ids) |->
            CHOOSE i \in ids : Cardinality({j \in ids : j < i}) = r - 1])

\* Assigning an index of another length to a frame raises ValueError.
GroupFrameFits(data, level) ==
  Len(GroupArray(data, level)) = Cardinality(IdSet(data))

\* Mutant: the points of a group are paired in row order, not by subject.
GroupFrameByRowOrder(data, level) == GroupArray(data, level)

\* The frame of one group's swarm points, sorted by value and re-indexed
\* with the subject ids in pivot order; its values listed by ascending id.
GroupFrame(data, level) ==
  LET points == SortAsc(GroupArray(data, level))
      order == PivotSortedIds(data, level)
      index == MergedIndex(data)
  IN Tup([r \in 1..Len(index) |->
            points[CHOOSE q \in 1..Len(order) : order[q] = index[r]]])

\* plotPoints['delta_y'] = plotPoints[xlevs[1]] - plotPoints[xlevs[0]], the
\* two frames merged on the subject id.
DeltaY(data, xlevs) ==
  LET before == GroupFrame(data, xlevs[1])
      after == GroupFrame(data, xlevs[2])
  IN Tup([r \in 1..Len(before) |-> after[r] - before[r]])

TTest1Samp(a, popmean) == [test |-> "ttest_1samp", args |-> <<a, popmean>>]

\* The normalisation of idx: a pair of strings becomes a tuple holding that
\* one pair; a tuple of tuples is kept; a wrong length exits the process.
PairedIdxExits(idx) ==
  \/ idx.form = "flat" /\ Len(idx.flat) # 2
  \/ idx.form = "nested" /\ \E i \in 1..Len(idx.nested) : Len(idx.nested[i]) # 2

PairedIdx(idx) == IF idx.form = "flat" THEN <<idx.flat>> ELSE idx.nested

\* One pass of the loop over idx, given the array the resampler returned:
\* the contrast of one pair, or the error that pass raises.
\* bootsDelta['ttest_pval'] = ttestresult; contrastList.append(bootsDelta)
PairedAppend(deltas, run) ==
  IF run.raised # "none"
    THEN [raised |-> run.raised, deltas |-> deltas, contrast |-> NoResult]
    ELSE [raised |-> "none", deltas |-> deltas,
          contrast |->
            [run.result EXCEPT !.keys = Append(@, "ttest_pval")]
              @@ [ttest_pval |-> TTest1Samp(deltas, 0)]]

\* bootsDelta = bootstrap(plotPoints['delta_y'], statfunction, smoothboot, reps)
PairedBootstrap(deltas, f, reps, boot) ==
  PairedAppend(deltas, BootstrapRun(deltas, f, DefaultAlpha, reps, boot))

PairedPass(data, xlevs, f, reps, boot) ==
  IF ~(GroupFrameFits(data, xlevs[1]) /\ GroupFrameFits(data, xlevs[2]))
    THEN [raised |-> "ValueError", deltas |-> <<>>, contrast |-> NoResult]
    ELSE PairedBootstrap(DeltaY(data, xlevs), f, reps, boot)

\* contrastListNames entry: str(xlevs[1]) + ' v.s. ' + str(xlevs[0])
ContrastName(xlevs) == [exp |-> xlevs[2], ref |-> xlevs[1]]

\* The loop over the pairs, given one resampler array per pass.
RECURSIVE PairedLoop(_, _, _, _, _)

\* The passes after one that has ended: none if it raised.
PairedNext(pass, data, pairs, f, reps, boots) ==
  IF pass.raised # "none"
    THEN [raised |-> pass.raised, deltas |-> <<pass.deltas>>,
          contrasts |-> <<>>, names |-> <<>>]
    ELSE
      LET rest == PairedLoop(data, Tail(pairs), f, reps, Tail(boots))
      IN [raised |-> rest.raised,
          deltas |-> <<pass.deltas>> \o rest.deltas,
          contrasts |-> <<pass.contrast>> \o rest.contrasts,
          names |-> <<ContrastName(Head(pairs))>> \o rest.names]

PairedLoop(data, pairs, f, reps, boots) ==
  IF pairs = <<>>
    THEN [raised |-> "none", deltas |-> <<>>, contrasts |-> <<>>, names |-> <<>>]
    ELSE PairedNext(PairedPass(data, Head(pairs), f, reps, Head(boots)),
                    data, pairs, f, reps, boots)

\* The arrays the resampler may return over the passes of the loop; a pass
\* that raises before resampling draws nothing and ends the loop.
RECURSIVE PairedBoots(_, _, _, _, _)
PairedBoots(data, pairs, f, reps, smooth) ==
  IF pairs = <<>> THEN {<<>>}
  ELSE
    LET xlevs == Head(pairs)
    IN IF ~(GroupFrameFits(data, xlevs[1]) /\ GroupFrameFits(data, xlevs[2]))
         THEN {<<<<>>>>}
         ELSE {<<b>> \o rest :
                 b \in BootDists(DeltaY(data, xlevs), f, reps, smooth),
                 rest \in PairedBoots(data, Tail(pairs), f, reps, smooth)}

PairedKeys == <<"fig", "contrastList">>

\* idx = tuple(np.unique(data[x])[0:2],): the first two levels in sorted
\* order, as one flat tuple of two names.
PairedDefault(data) == SubSeq(SortAsc(Levels(data)), 1, 2)

\* What `for gsIdx, xlevs in enumerate(idx)` iterates over: the pairs of a
\* given idx; the two names themselves when idx was not given, because the
\* default is not wrapped into a tuple of pairs.
PairedLoopOver(data, idx) ==
  IF idx.form = "none" THEN PairedDefault(data) ELSE PairedIdx(idx)

\* A pass whose xlevs is one name instead of a pair hands that name to the
\* plotting library as `order`; the second group's points are then missing
\* and the pass raises before anything is resampled. Which error depends on
\* the name and on the library.
UnpairedPassErrors == {"IndexError", "ValueError", "TypeError"}

\* pairedcontrast without idx: the first pass of the loop raises.
PairedDefaultRun(error) ==
  [raised |-> error, result |-> NoResult,
   internals |-> [fn |-> "pairedcontrast", deltas |-> <<>>]]

\* return fig, contrastList
PairedReturn(loop) ==
  IF loop.raised # "none"
    THEN [raised |-> loop.raised, result |-> NoResult,
          internals |-> [fn |-> "pairedcontrast", deltas |-> loop.deltas]]
    ELSE [raised |-> "none",
          internals |-> [fn |-> "pairedcontrast", deltas |-> loop.deltas],
          result |-> [keys |-> PairedKeys,
                      contrastList |-> loop.contrasts,
                      columns |-> loop.names]]

PairedRun(data, idx, f, reps, boots) ==
  IF PairedIdxExits(idx)
    THEN [raised |-> "SystemExit", result |-> NoResult,
          internals |-> [fn |-> "pairedcontrast", deltas |-> <<>>]]
    ELSE PairedReturn(PairedLoop(data, PairedIdx(idx), f, reps, boots))

(***************************************************************************)
(* matplotlib's process-wide rc parameters, as far as contrastplot and     *)
(* pairedcontrast touch them: the three label sizes, the parameters of the *)
(* seaborn style, and every other parameter taken together.  A value is    *)
(* matplotlib's default, seaborn's default, the caller's own setting, or   *)
(* what one of the two functions wrote.                                    *)
(***************************************************************************)
\* rcdefaults(): every parameter goes back to matplotlib's default.
RcDefaults(params) ==
  [axes_labelsize |-> "matplotlib", xtick_labelsize |-> "matplotlib",
   ytick_labelsize |-> "matplotlib", style |-> "matplotlib", other |-> "matplotlib"]

\* sb.set(style = ...): the seaborn style and the font sizes of the seaborn
\* context are written; parameters seaborn does not manage are left alone.
SbSet(params, style) ==
  [params EXCEPT !.axes_labelsize = "seaborn", !.xtick_labelsize = "seaborn",
                 !.ytick_labelsize = "seaborn", !.style = style]

\* rc('axes', labelsize = 15); rc('xtick', labelsize = 12);
\* rc('ytick', labelsize = 12), the sizes being the defaults of
\* axis_title_size, xticksize and yticksize.
RcLabelSizes(params) ==
  [params EXCEPT !.axes_labelsize = "15", !.xtick_labelsize = "12",
                 !.ytick_labelsize = "12"]

\* contrastplot: sb.set(style = 'ticks') and the three rc(...) calls on
\* entry; rcdefaults() and sb.set() just before the return, which an
\* exception on the way never reaches.
PlotRc(params, error) ==
  IF error = "none"
    THEN SbSet(RcDefaults(RcLabelSizes(SbSet(params, "ticks"))), "darkgrid")
    ELSE RcLabelSizes(SbSet(params, "ticks"))

\* pairedcontrast: the three rc(...) calls on entry; rcdefaults() and
\* sb.set() just before the return, which sys.exit(0) and an exception on
\* the way never reach.
PairedRc(params, error) ==
  IF error = "none"
    THEN SbSet(RcDefaults(RcLabelSizes(params)), "darkgrid")
    ELSE RcLabelSizes(params)

\* The parameters at the call: untouched matplotlib, after the caller's
\* own sb.set(), or customised by the caller.
RcAtCall ==
  { RcDefaults(<<>>),
    SbSet(RcDefaults(<<>>), "darkgrid"),
    [axes_labelsize |-> "caller", xtick_labelsize |-> "caller",
     ytick_labelsize |-> "caller", style |-> "caller", other |-> "caller"] }

\* The rc state of a process in which a call begins: what it was at the
\* call and what it is now.
RcAt(params) == [at_call |-> params, now |-> params]

\* The rc state once the function has written params.
RcNow(rc, params) == [rc EXCEPT !.now = params]

(***************************************************************************)
(* contrastplot(data, x, y, idx, statfunction, reps, ..., floatContrast):  *)
(* the contrasts computed for each tuple of groups, the limits given to    *)
(* the floating axis, and the table returned.  The drawing is left out.    *)
(***************************************************************************)
\* levs_tuple: all levels in order of first appearance when idx is None,
\* the one tuple idx when idx is a list of strings, idx itself when it is
\* a tuple of tuples.
PlotLevsTuple(data, idx) ==
  IF idx.form = "none" THEN <<Levels(data)>>
  ELSE IF idx.form = "flat" THEN <<idx.flat>>
  ELSE idx.nested

\* floatContrast is switched off when a tuple has more than two groups.
PlotFloat(levs_tuple, floatContrast) ==
  floatContrast /\ \A k \in 1..Len(levs_tuple) : Len(levs_tuple[k]) <= 2

\* The idx handed to bootstrap_contrast for each contrast of one tuple:
\* levs itself when it has two groups; [levs[0], levs[i]] for i = 1 ..
\* len(levs)-1 when it has more; nothing otherwise.
PlotPairs(levs) ==
  IF Len(levs) = 2 THEN <<levs>>
  ELSE IF Len(levs) > 2 THEN Tup([i \in 1..(Len(levs) - 1) |-> <<levs[1], levs[i + 1]>>])
  ELSE <<>>

\* tempbs = bootstrap_contrast(data, x, y, idx, statfunction, smoothboot,
\* reps): alpha is left at its default.
PlotContrast(data, pair, f, reps, d) ==
  IF Len(ArrayList(data, pair)) < 2
    THEN [raised |-> "IndexError", result |-> NoResult,
          internals |-> [fn |-> "bootstrap_contrast_unresolved"]]
  ELSE ContrastRun(ArrayList(data, pair), f, DefaultAlpha, reps, d.ref, d.exp, d.mwp)

\* The column name of a contrast.  A tuple of two groups uses str() on both
\* labels; the loop for more groups concatenates the labels with a string,
\* which raises TypeError for a label that is no string.
PlotNameRaises(levs, pair) == Len(levs) > 2 /\ ~(IsStr(pair[1]) /\ IsStr(pair[2]))

PlotName(levs, pair) ==
  [exp |-> pair[2], ref |-> pair[1], sep |-> IF Len(levs) = 2 THEN "v.s" ELSE "vs."]

\* rightmin, rightmax before any tuple has assigned them.
Unbound == [bound |-> FALSE, of_tuple |-> 0, shift |-> 0]

\* rightmin, rightmax after the pass of tuple k: the left axis limits of
\* that tuple shifted down by the size of a positive or of a negative
\* effect size; left as they were when the effect size is zero.
RightLimits(k, summary, before) ==
  IF summary > 0 THEN [bound |-> TRUE, of_tuple |-> k, shift |-> 0 - summary]
  ELSE IF summary < 0 THEN [bound |-> TRUE, of_tuple |-> k, shift |-> summary]
  ELSE before

\* The contrasts of one tuple, given one draw per contrast: each result is
\* appended before its name is.
RECURSIVE PlotContrasts(_, _, _, _, _, _)

PlotContrastsNext(run, data, levs, pairs, f, reps, ds) ==
  IF run.raised # "none"
    THEN [raised |-> run.raised, contrasts |-> <<>>, names |-> <<>>]
  ELSE IF PlotNameRaises(levs, Head(pairs))
    THEN [raised |-> "TypeError", contrasts |-> <<run.result>>, names |-> <<>>]
  ELSE LET rest == PlotContrasts(data, levs, Tail(pairs), f, reps, Tail(ds))
       IN [raised |-> rest.raised,
           contrasts |-> <<run.result>> \o rest.contrasts,
           names |-> <<PlotName(levs, Head(pairs))>> \o rest.names]

PlotContrasts(data, levs, pairs, f, reps, ds) ==
  IF pairs = <<>> THEN [raised |-> "none", contrasts |-> <<>>, names |-> <<>>]
  ELSE PlotContrastsNext(PlotContrast(data, Head(pairs), f, reps, Head(ds)),
                         data, levs, pairs, f, reps, ds)

\* One pass of the loop over levs_tuple: the contrasts, then for a tuple of
\* two groups with floatContrast the limits handed to ax_right.set_ylim.
PlotPassLimits(k, levs, float, done, before) ==
  IF done.raised # "none" \/ ~(float /\ Len(levs) = 2)
    THEN [raised |-> done.raised, contrasts |-> done.contrasts, names |-> done.names,
          set_ylim |-> <<>>, limits |-> before]
  ELSE IF ~RightLimits(k, done.contrasts[1].summary, before).bound
    THEN [raised |-> "UnboundLocalError", contrasts |-> done.contrasts,
          names |-> done.names, set_ylim |-> <<>>, limits |-> before]
  ELSE [raised |-> "none", contrasts |-> done.contrasts, names |-> done.names,
        set_ylim |-> <<[tuple |-> k,
                        limits |-> RightLimits(k, done.contrasts[1].summary, before)]>>,
        limits |-> RightLimits(k, done.contrasts[1].summary, before)]

PlotPass(k, data, levs, f, reps, float, ds, before) ==
  PlotPassLimits(k, levs, float,
                 PlotContrasts(data, levs, PlotPairs(levs), f, reps, ds), before)

\* The loop over levs_tuple from tuple k on, given the draws of each tuple.
RECURSIVE PlotLoop(_, _, _, _, _, _, _, _)

PlotLoopNext(pass, k, data, levs_tuple, f, reps, float, draws) ==
  IF pass.raised # "none"
    THEN [raised |-> pass.raised, contrasts |-> pass.contrasts, names |-> pass.names,
          per_tuple |-> <<Len(pass.contrasts)>>, set_ylim |-> pass.set_ylim]
  ELSE LET rest == PlotLoop(k + 1, data, levs_tuple, f, reps, float, draws, pass.limits)
       IN [raised |-> rest.raised,
           contrasts |-> pass.contrasts \o rest.contrasts,
           names |-> pass.names \o rest.names,
           per_tuple |-> <<Len(pass.contrasts)>> \o rest.per_tuple,
           set_ylim |-> pass.set_ylim \o rest.set_ylim]

PlotLoop(k, data, levs_tuple, f, reps, float, draws, before) ==
  IF k > Len(levs_tuple)
    THEN [raised |-> "none", contrasts |-> <<>>, names |-> <<>>, per_tuple |-> <<>>,
          set_ylim |-> <<>>]
    ELSE PlotLoopNext(PlotPass(k, data, levs_tuple[k], f, reps, float, draws[k], before),
                      k, data, levs_tuple, f, reps, float, draws)

PlotKeys == <<"fig", "contrastList">>

\* contrastList = pd.DataFrame(contrastList).T; contrastList.columns =
\* contrastListNames; return fig, contrastList
PlotReturn(levs_tuple, float, loop) ==
  [raised |-> loop.raised,
   internals |-> [fn |-> "contrastplot", levs_tuple |-> levs_tuple,
                  floatContrast |-> float, contrasts |-> loop.contrasts,
                  names |-> loop.names, per_tuple |-> loop.per_tuple,
                  set_ylim |-> loop.set_ylim],
   result |-> IF loop.raised # "none" THEN NoResult
              ELSE [keys |-> PlotKeys, contrastList |-> loop.contrasts,
                    columns |-> loop.names]]

PlotRun(data, idx, f, reps, floatContrast, draws) ==
  PlotReturn(PlotLevsTuple(data, idx),
             PlotFloat(PlotLevsTuple(data, idx), floatContrast),
             PlotLoop(1, data, PlotLevsTuple(data, idx), f, reps,
                      PlotFloat(PlotLevsTuple(data, idx), floatContrast), draws, Unbound))

(***************************************************************************)
(* Inputs.                                                                 *)
(***************************************************************************)
Values == {0, 1}

Reps == 1..MaxReps

\* The non-empty samples of at most MaxLen observations.
Samples == UNION {[1..n -> Values] : n \in 1..MaxLen}

BootstrapCalls ==
  [fn : {"bootstrap"}, data : Samples, statfunction : StatFunctions,
   smoothboot : BOOLEAN, alpha : Alphas, reps : Reps]

\* Two string-labelled groups, two subjects: a = [1,1], b = [0,1].
TabAB == <<Row(1, 10, 1), Row(2, 10, 1), Row(1, 11, 0), Row(2, 11, 1)>>

\* Integer labels, label 1 appearing first: group 1 = [0,1], group 0 = [1].
TabInt == <<Row(1, 1, 0), Row(2, 1, 1), Row(1, 0, 1)>>

\* Three groups: a = [0], b = [1,0], c = [1].
TabABC == <<Row(1, 10, 0), Row(1, 11, 1), Row(2, 11, 0), Row(1, 12, 1)>>

\* A single group: a = [0,1].
TabOne == <<Row(1, 10, 0), Row(2, 10, 1)>>

\* Two groups without variance: a = [1,1], b = [2,2].
TabConst == <<Row(1, 10, 1), Row(2, 10, 1), Row(1, 11, 2), Row(2, 11, 2)>>

Tables == {TabAB, TabInt, TabABC, TabOne, TabConst}

IdxChoices ==
  { NoIdx,              \* the default [0, 1]
    Idx(<<1, 0>>),      \* positions (labels in TabInt)
    Idx(<<11, 10>>),    \* labels 'b', 'a'
    Idx(<<10, 1>>),     \* a label and a position
    Idx(<<0>>),         \* one entry
    Idx(<<7, 0, 1>>),   \* an entry that is neither label nor position
    Idx(<<0, 1, 2>>) }  \* three entries

ContrastCalls ==
  [fn : {"bootstrap_contrast"}, data : Tables, idx : IdxChoices,
   statfunction : StatFunctions, smoothboot : {FALSE}, alpha : Alphas, reps : Reps]

\* Three subjects whose rows come in a different order in the two groups:
\* a = {1: 0, 2: 1, 3: 1}, b = {1: 1, 2: 1, 3: 0}.
TabCross ==
  <<Row(1, 10, 0), Row(2, 10, 1), Row(3, 10, 1),
    Row(3, 11, 0), Row(2, 11, 1), Row(1, 11, 1)>>

\* Subject 1 observed twice in a and subject 2 not at all:
\* a = {1: 0 and 1}, b = {1: 1, 2: 0}.
TabDup == <<Row(1, 10, 0), Row(1, 10, 1), Row(1, 11, 1), Row(2, 11, 0)>>

\* idx as a list of strings, or as a tuple of tuples.
FlatIdx(entries) == [form |-> "flat", flat |-> entries, nested |-> <<>>]

NestedIdx(entries) == [form |-> "nested", flat |-> <<>>, nested |-> entries]

\* idx = None
NoPairedIdx == [form |-> "none", flat |-> <<>>, nested |-> <<>>]

PairedCalls ==
  [fn : {"pairedcontrast"}, data : {TabAB, TabCross, TabConst, TabABC, TabDup},
   idx : {FlatIdx(<<10, 11>>), FlatIdx(<<11, 10>>), FlatIdx(<<10>>),
          NestedIdx(<< <<10, 11>> >>)},
   statfunction : StatFunctions, smoothboot : BOOLEAN, reps : Reps]
  \cup
  [fn : {"pairedcontrast"}, data : {TabAB, TabConst},
   idx : {NestedIdx(<< <<10, 11>>, <<11, 10>> >>)},
   statfunction : StatFunctions, smoothboot : {FALSE}, reps : Reps]
  \cup
  [fn : {"pairedcontrast"}, data : {TabAB, TabABC},
   idx : {NoPairedIdx},
   statfunction : StatFunctions, smoothboot : {FALSE}, reps : Reps]

Calls == BootstrapCalls \cup ContrastCalls \cup PairedCalls

\* Three groups, two of them with the same values: a = [0], b = [1], c = [1].
TabEq == <<Row(1, 10, 0), Row(1, 11, 1), Row(1, 12, 1)>>

\* Three groups with integer labels, in the order 1, 0, 2.
TabInt3 == <<Row(1, 1, 0), Row(1, 0, 1), Row(1, 2, 1)>>

\* contrastplot on two groups (TabCross: equal means and medians), on
\* three groups at once, and on several tuples of two groups.
PlotCalls ==
  [fn : {"contrastplot"}, data : {TabAB, TabCross, TabInt},
   idx : {NoPairedIdx}, statfunction : StatFunctions, smoothboot : {FALSE},
   reps : {1}, floatContrast : BOOLEAN]
  \cup
  [fn : {"contrastplot"}, data : {TabAB, TabCross},
   idx : {FlatIdx(<<11, 10>>)}, statfunction : StatFunctions, smoothboot : {FALSE},
   reps : {1}, floatContrast : BOOLEAN]
  \cup
  [fn : {"contrastplot"}, data : {TabABC, TabEq, TabInt3},
   idx : {NoPairedIdx}, statfunction : StatFunctions, smoothboot : {FALSE},
   reps : {1}, floatContrast : BOOLEAN]
  \cup
  [fn : {"contrastplot"}, data : {TabABC, TabEq},
   idx : {FlatIdx(<<12, 10, 11>>),
          NestedIdx(<< <<10, 11>>, <<11, 12>> >>),
          NestedIdx(<< <<11, 12>>, <<10, 11>> >>),
          NestedIdx(<< <<10, 11, 12>>, <<11, 10>> >>)},
   statfunction : StatFunctions, smoothboot : {FALSE},
   reps : {1}, floatContrast : BOOLEAN]

\* pairedcontrast calls that return, exit on the idx check, and raise.
PlotPairedCalls ==
  [fn : {"pairedcontrast"}, data : {TabAB, TabABC},
   idx : {FlatIdx(<<10, 11>>), FlatIdx(<<10>>), NoPairedIdx},
   statfunction : {"mean"}, smoothboot : {FALSE}, reps : {1}]

\* Every sequence that takes its i-th element from the i-th set.
RECURSIVE SeqsOver(_)
SeqsOver(sets) ==
  IF sets = <<>> THEN {<<>>}
  ELSE {<<h>> \o t : h \in Head(sets), t \in SeqsOver(Tail(sets))}

\* What the library calls of one bootstrap_contrast may return.
ContrastDraws(data, pair, f, reps) ==
  IF Len(ArrayList(data, pair)) < 2 THEN {[ref |-> <<>>, exp |-> <<>>, mwp |-> 0]}
  ELSE [ref : BootDists(ArrayList(data, pair)[1], f, reps, FALSE),
        exp : BootDists(ArrayList(data, pair)[2], f, reps, FALSE),
        mwp : MannWhitneyPValues]

\* The draws of the contrasts of one tuple, and of all tuples.
TupleDraws(data, levs, f, reps) ==
  SeqsOver(Tup([i \in 1..Len(PlotPairs(levs)) |->
                  ContrastDraws(data, PlotPairs(levs)[i], f, reps)]))

PlotDraws(data, levs_tuple, f, reps) ==
  SeqsOver(Tup([k \in 1..Len(levs_tuple) |-> TupleDraws(data, levs_tuple[k], f, reps)]))

\* The arrays the resampler returned to the contrasts that were computed.
RECURSIVE Concat(_)
Concat(seqs) == IF seqs = <<>> THEN <<>> ELSE Head(seqs) \o Concat(Tail(seqs))

PlotDrawn(draws, computed) ==
  Tup([i \in 1..computed |-> <<Concat(draws)[i].ref, Concat(draws)[i].exp>>])

(***************************************************************************)
(* Sessions: a caller that makes a second call after the first has ended,  *)
(* either the same call again or the contrast with the two groups swapped. *)
(***************************************************************************)
SessionSamples == {<<0, 1>>, <<1, 1, 0>>}

SessionReps == {1, 2}

SessionAlphas == {Prob(1, 20), Prob(1, 2)}

SessionIdx == {NoIdx, Idx(<<10, 11>>), Idx(<<11, 10>>)}

SessionCalls ==
  [fn : {"bootstrap"}, data : SessionSamples, statfunction : StatFunctions,
   smoothboot : BOOLEAN, alpha : SessionAlphas, reps : SessionReps]
  \cup
  [fn : {"bootstrap_contrast"}, data : {TabAB, TabInt}, idx : SessionIdx,
   statfunction : StatFunctions, smoothboot : {FALSE}, alpha : SessionAlphas,
   reps : SessionReps]

\* idx with its two entries exchanged; the default [0, 1] becomes [1, 0].
SwappedIdx(idx) ==
  IF idx.given THEN Idx(<<idx.entries[2], idx.entries[1]>>) ELSE Idx(<<1, 0>>)

\* The same call of bootstrap_contrast with the two groups exchanged.
SwappedCall(c) == [c EXCEPT !.idx = SwappedIdx(c.idx)]

\* The calls a caller makes after the call c.
FollowUps(c) ==
  IF c.fn = "bootstrap_contrast" THEN {c, SwappedCall(c)} ELSE {c}

NoPrevious == [fn |-> "none"]

(***************************************************************************)
(* The state machine: a call is pending, then has returned or raised.      *)
(* np_random counts the variates taken from numpy's process-wide random    *)
(* generator; previous is the call that ended before the pending one.      *)
(***************************************************************************)
\* The arrays a call works on, by the name the code gives them.  data is
\* the caller's object; every other entry is an object made during the call.
CallerObjects(data) == [data |-> data]

\* ndarray.sort(): sorts the named object in place.
SortInPlace(arrays, name) == [arrays EXCEPT ![name] = SortAsc(@)]

\* Mutant: the sort is applied to the caller's data.
BootstrapSortsData == "data"

\* statarray.sort(): the object bootstrap sorts.
BootstrapSorts == "statarray"

\* bootstrap: data = np.array(data) makes a new array, the resampler returns
\* a new array, and one of them is sorted in place.
BootstrapObjects(data, boot) ==
  SortInPlace([data |-> data, array |-> data, statarray |-> boot], BootstrapSorts)

\* diff_array.sort(): the object bootstrap_contrast sorts.
ContrastSorts == "diff_array"

\* bootstrap_contrast: the group arrays are new arrays made from the
\* selected rows, diff_array is the new array exp_statarray - ref_statarray.
ContrastObjects(data, arraylist, diff) ==
  SortInPlace([data |-> data, ref_array |-> arraylist[1], exp_array |-> arraylist[2],
               diff_array |-> diff], ContrastSorts)

Start(calls) ==
  /\ pc = "called"
  /\ call \in calls
  /\ drawn = <<>>
  /\ internals = NoInternals
  /\ result = NoResult
  /\ raised = "none"
  /\ previous = NoPrevious
  /\ np_random = 0
  /\ objects = CallerObjects(call.data)
  /\ rcParams = RcAt(RcDefaults(<<>>))

Init == Start(Calls)

Finish(run) ==
  /\ internals' = run.internals
  /\ result' = run.result
  /\ raised' = run.raised
  /\ pc' = IF run.raised = "none" THEN "returned" ELSE "raised"

\* sb.algorithms.bootstrap is called without random_seed: with smooth =
\* False it draws from a generator made for the call and seeded from the
\* operating system; with smooth = True it resamples a kernel density
\* estimate n_boot times from numpy's process-wide generator.
Consumed(smooth, n_boot) == IF smooth THEN n_boot ELSE 0

Bootstrap ==
  /\ pc = "called"
  /\ call.fn = "bootstrap"
  /\ IF call.data = <<>>
       THEN \E outcome \in EmptyOutcomes(call.smoothboot) :
              /\ drawn' = IF outcome = "nan"
                            THEN <<Tup([i \in 1..call.reps |-> NaN])>> ELSE <<>>
              /\ Finish(BootstrapEmptyRun(call.statfunction, call.alpha, call.reps, outcome))
              /\ np_random' = np_random
              /\ objects' = objects
       ELSE \E boot \in BootDists(call.data, call.statfunction, call.reps,
                                  call.smoothboot) :
              /\ drawn' = <<boot>>
              /\ Finish(BootstrapRun(call.data, call.statfunction, call.alpha,
                                     call.reps, boot))
              /\ np_random' = np_random + Consumed(call.smoothboot, call.reps)
              /\ objects' = BootstrapObjects(call.data, boot)
  /\ UNCHANGED <<call, previous, rcParams>>

\* arraylist[0] or arraylist[1] does not exist: IndexError before resampling.
ContrastTooFew ==
  [raised |-> "IndexError", result |-> NoResult,
   internals |-> [fn |-> "bootstrap_contrast_unresolved"]]

BootstrapContrast ==
  /\ pc = "called"
  /\ call.fn = "bootstrap_contrast"
  /\ LET arraylist == ArrayList(call.data, ContrastIdx(call.idx))
     IN IF Len(arraylist) < 2
          THEN /\ drawn' = <<>>
               /\ Finish(ContrastTooFew)
               /\ np_random' = np_random
               /\ objects' = objects
          ELSE \E ref_statarray \in BootDists(arraylist[1], call.statfunction,
                                              call.reps, call.smoothboot),
                  exp_statarray \in BootDists(arraylist[2], call.statfunction,
                                              call.reps, call.smoothboot),
                  mwp \in MannWhitneyPValues :
                 /\ drawn' = <<ref_statarray, exp_statarray>>
                 /\ Finish(ContrastRun(arraylist, call.statfunction, call.alpha,
                                       call.reps, ref_statarray, exp_statarray, mwp))
                 /\ np_random' = np_random + Consumed(call.smoothboot, 2 * call.reps)
                 /\ objects' = ContrastObjects(call.data, arraylist,
                                                DiffArray(ref_statarray, exp_statarray))
  /\ UNCHANGED <<call, previous, rcParams>>

\* The passes of the loop over idx that reached the resampler.
PairedResampled(boots) == Cardinality({i \in 1..Len(boots) : boots[i] # <<>>})

PairedContrast ==
  /\ pc = "called"
  /\ call.fn = "pairedcontrast"
  /\ IF call.idx.form = "none"
       THEN \E error \in UnpairedPassErrors :
              /\ drawn' = <<>>
              /\ Finish(PairedDefaultRun(error))
              /\ np_random' = np_random
              /\ rcParams' = RcNow(rcParams, PairedRc(rcParams.now, error))
       ELSE \E boots \in (IF PairedIdxExits(call.idx) THEN {<<>>}
                          ELSE PairedBoots(call.data, PairedIdx(call.idx),
                                           call.statfunction, call.reps,
                                           call.smoothboot)) :
              /\ drawn' = boots
              /\ Finish(PairedRun(call.data, call.idx, call.statfunction, call.reps,
                                  boots))
              /\ np_random' = np_random
                   + Consumed(call.smoothboot, PairedResampled(boots) * call.reps)
              /\ rcParams' = RcNow(rcParams,
                     PairedRc(rcParams.now,
                              PairedRun(call.data, call.idx, call.statfunction,
                                        call.reps, boots).raised))
  /\ UNCHANGED <<call, previous, objects>>

Next == Bootstrap \/ BootstrapContrast \/ PairedContrast

Spec == Init /\ [][Next]_vars

\* The caller, after a call has ended, makes its second call.
CallAgain ==
  /\ pc \in {"returned", "raised"}
  /\ previous = NoPrevious
  /\ previous' = [fn |-> call.fn, call |-> call, drawn |-> drawn,
                  internals |-> internals, result |-> result, raised |-> raised,
                  np_random |-> np_random]
  /\ call' \in FollowUps(call)
  /\ objects' = CallerObjects(call'.data)
  /\ rcParams' = RcAt(rcParams.now)
  /\ pc' = "called"
  /\ drawn' = <<>>
  /\ internals' = NoInternals
  /\ result' = NoResult
  /\ raised' = "none"
  /\ UNCHANGED np_random

\* Calls of bootstrap with a sample of no observations.
\* contrastplot: one draw per contrast of every tuple.
ContrastPlot ==
  /\ pc = "called"
  /\ call.fn = "contrastplot"
  /\ \E draws \in PlotDraws(call.data, PlotLevsTuple(call.data, call.idx),
                             call.statfunction, call.reps) :
       /\ Finish(PlotRun(call.data, call.idx, call.statfunction, call.reps,
                         call.floatContrast, draws))
       /\ drawn' = PlotDrawn(draws, Len(internals'.contrasts))
       /\ rcParams' = RcNow(rcParams, PlotRc(rcParams.now, raised'))
  /\ UNCHANGED <<call, previous, np_random, objects>>

\* The plotting functions, called in a process whose rc parameters are
\* matplotlib's, seaborn's or the caller's own.
InitPlot ==
  /\ pc = "called"
  /\ call \in PlotCalls \cup PlotPairedCalls
  /\ drawn = <<>>
  /\ internals = NoInternals
  /\ result = NoResult
  /\ raised = "none"
  /\ previous = NoPrevious
  /\ np_random = 0
  /\ objects = CallerObjects(call.data)
  /\ rcParams \in {RcAt(params) : params \in RcAtCall}

NextPlot == ContrastPlot \/ PairedContrast

SpecPlot == InitPlot /\ [][NextPlot]_vars

EmptyCalls ==
  [fn : {"bootstrap"}, data : {<<>>}, statfunction : StatFunctions,
   smoothboot : BOOLEAN, alpha : Alphas, reps : Reps]

InitEmpty == Start(EmptyCalls)

NextEmpty == Bootstrap

SpecEmpty == InitEmpty /\ [][NextEmpty]_vars

\* Two groups for a contrast of ten replicates: a = [0,0,1], b = [1].
TabLow == <<Row(1, 10, 0), Row(2, 10, 0), Row(3, 10, 1), Row(1, 11, 1)>>

\* The significance levels of the calls with ten replicates: 0.05 puts the
\* percentile indices at 0 and 9, 0.5 puts them at 2 and 7.
LowRepsAlphas == {DefaultAlpha, Prob(1, 2)}

\* Calls of bootstrap and bootstrap_contrast with reps = 10, for samples
\* whose statistic takes one, two or three values over the resamples.
LowRepsCalls ==
  {[fn |-> "bootstrap", data |-> c[1], statfunction |-> c[2], smoothboot |-> FALSE,
    alpha |-> a, reps |-> 10] :
     c \in {<<<<1>>, "mean">>, <<<<0, 0, 1>>, "median">>, <<<<0, 1, 1>>, "median">>,
            <<<<0, 1>>, "mean">>},
     a \in LowRepsAlphas}
  \cup
  {[fn |-> "bootstrap_contrast", data |-> TabLow, idx |-> x, statfunction |-> "median",
    smoothboot |-> FALSE, alpha |-> a, reps |-> 10] :
     x \in {NoIdx, Idx(<<11, 10>>)}, a \in LowRepsAlphas}

InitLowReps == Start(LowRepsCalls)

NextLowReps == Bootstrap \/ BootstrapContrast

SpecLowReps == InitLowReps /\ [][NextLowReps]_vars

InitSession == Start(SessionCalls)

NextSession == Bootstrap \/ BootstrapContrast \/ CallAgain

SpecSession == InitSession /\ [][NextSession]_vars

(***************************************************************************)
(* Properties.                                                             *)
(***************************************************************************)
Returned(fn) == pc = "returned" /\ call.fn = fn

\* The elements of a sequence.
Elems(s) == {s[i] : i \in 1..Len(s)}

\* The k-th smallest element of s.
OrderStat(s, k) ==
  CHOOSE e \in Elems(s) :
    /\ Cardinality({i \in 1..Len(s) : s[i] < e}) <= k - 1
    /\ Cardinality({i \in 1..Len(s) : s[i] <= e}) >= k

\* v is Scale times the statistic f of the sample s, stated from the
\* definition of the mean and of the median.
IsStatOf(f, v, s) ==
  LET n == Len(s)
  IN IF f = "mean" THEN v * n = Scale * SumSeq(s)
     ELSE IF n % 2 = 1 THEN v = Scale * OrderStat(s, (n + 1) \div 2)
     ELSE 2 * v = Scale * (OrderStat(s, n \div 2) + OrderStat(s, (n \div 2) + 1))

\* The distribution a result carries.
Distribution(r) == IF r.keys[8] = "stat_array" THEN r.stat_array ELSE r.diffarray

\* C1: the summary of bootstrap(S, ...) is statfunction(S) of the original
\* data, whatever reps, alpha, smoothboot and the resamples drawn.
C1_SummaryIsStatOfData ==
  Returned("bootstrap") => IsStatOf(call.statfunction, result.summary, call.data)

\* C1 witness: a bootstrap call has returned a summary that is none of the
\* resampled statistics.
C1_Witness ==
  /\ Returned("bootstrap")
  /\ call.reps >= 2
  /\ result.summary \notin Elems(result.stat_array)

\* C2: the summary of bootstrap_contrast is statfunction(B) - statfunction(A)
\* for A, B the first and second group resolved from idx, and equals
\* statistic_exp - statistic_ref of the same result.
C2_SummaryIsExpMinusRef ==
  Returned("bootstrap_contrast") =>
    LET arraylist == ArrayList(call.data, ContrastIdx(call.idx))
    IN /\ result.summary =
            Stat(call.statfunction, arraylist[2]) - Stat(call.statfunction, arraylist[1])
       /\ result.summary = result.statistic_exp - result.statistic_ref

\* C2 witness: a contrast has returned with a non-zero summary.
C2_Witness ==
  /\ Returned("bootstrap_contrast")
  /\ result.summary # 0
  /\ result.statistic_ref # 0

\* C3: the returned distribution has exactly reps elements, is sorted in
\* non-decreasing order, and the four CI bounds are elements of it at the
\* reported indices.
C3_DistributionSorted ==
  (Returned("bootstrap") \/ Returned("bootstrap_contrast")) =>
    LET dist == Distribution(result)
    IN /\ Len(dist) = call.reps
       /\ IsSorted(dist)
       /\ result.pct_ci_low = PyGet(dist, result.pct_low_high_indices[1])
       /\ result.pct_ci_high = PyGet(dist, result.pct_low_high_indices[2])
       /\ result.bca_ci_low = PyGet(dist, result.bca_low_high_indices[1])
       /\ result.bca_ci_high = PyGet(dist, result.bca_low_high_indices[2])

\* C3 witness: a bootstrap call has returned after the resampler gave an
\* array that was not in ascending order.
C3_Witness ==
  /\ Returned("bootstrap")
  /\ ~IsSorted(drawn[1])
  /\ result.pct_ci_low < result.pct_ci_high

\* A call of bootstrap or bootstrap_contrast has computed its index pairs
\* (and then returned, or raised at the array access).
Estimated ==
  /\ pc # "called"
  /\ internals.fn \in {"bootstrap", "bootstrap_contrast"}

\* C4: for alpha in (0,1) the returned bounds satisfy
\* pct_ci_low <= pct_ci_high and bca_ci_low <= bca_ci_high.
C4_BoundsOrdered ==
  ((Returned("bootstrap") \/ Returned("bootstrap_contrast")) /\ ValidAlpha(call.alpha)) =>
    /\ result.pct_ci_low <= result.pct_ci_high
    /\ result.bca_ci_low <= result.bca_ci_high

\* C5: in every call each of the four indices lies in 0..reps-1 and in each
\* pair the low index is at most the high index.
C5_IndicesInRange ==
  Estimated =>
    /\ \A j \in 1..2 : /\ 0 <= internals.pct[j] /\ internals.pct[j] <= call.reps - 1
                       /\ 0 <= internals.bca[j] /\ internals.bca[j] <= call.reps - 1
    /\ internals.pct[1] <= internals.pct[2]
    /\ internals.bca[1] <= internals.bca[2]

Clamp(v, lo, hi) == IF v < lo THEN lo ELSE IF v > hi THEN hi ELSE v

\* C6: for any alpha the percentile indices are round((reps-1)*alpha/2) and
\* round((reps-1)*(1-alpha/2)), NaN replaced by 0, each clamped into
\* [0, reps-1].
C6_PctIndicesClamped ==
  Estimated =>
    \A j \in 1..2 :
      internals.pct[j] =
        Clamp(NanToNumInt(RoundScaled(TwoSidedAlphas(call.alpha)[j], call.reps)),
              0, call.reps - 1)

\* C7: element i of the unsorted difference is exp_statarray[i] -
\* ref_statarray[i], both resample distributions have reps elements, and
\* diffarray is the ascending sort of those reps differences.
C7_DiffIsExpMinusRefSorted ==
  Returned("bootstrap_contrast") =>
    /\ Len(drawn[1]) = call.reps
    /\ Len(drawn[2]) = call.reps
    /\ Len(internals.unsorted) = call.reps
    /\ \A i \in 1..call.reps : internals.unsorted[i] = drawn[2][i] - drawn[1][i]
    /\ IsSorted(result.diffarray)
    /\ SameElements(result.diffarray, internals.unsorted)

\* C7 witness: a contrast has returned whose differences were not drawn in
\* ascending order and are not all zero.
C7_Witness ==
  /\ Returned("bootstrap_contrast")
  /\ ~IsSorted(internals.unsorted)
  /\ \E i \in 1..call.reps : drawn[1][i] # 0 /\ drawn[2][i] # drawn[1][i]

\* Every subject has exactly one observation in each group of the pair.
ProperlyPaired(data, xlevs) ==
  \A id \in IdSet(data) :
    /\ Len(CellValues(data, id, xlevs[1])) = 1
    /\ Len(CellValues(data, id, xlevs[2])) = 1

\* The observation of subject id in a group, read from its row.
Obs(data, id, level) ==
  data[CHOOSE i \in 1..Len(data) : data[i].id = id /\ data[i].x = level].y

\* The subjects in ascending order of id.
Subjects(data) == MergedIndex(data)

\* C8: for each pair of a paired contrast over subject-aligned groups, the
\* delta of subject s is after[s] - before[s]; the deltas are what the
\* single-sample bootstrap resamples, and the summary is statfunction(deltas).
C8_PairedDeltas ==
  Returned("pairedcontrast") =>
    \A k \in 1..Len(PairedIdx(call.idx)) :
      LET xlevs == PairedIdx(call.idx)[k]
          deltas == internals.deltas[k]
          contrast == result.contrastList[k]
          ids == Subjects(call.data)
      IN ProperlyPaired(call.data, xlevs) =>
           /\ Len(deltas) = Len(ids)
           /\ \A r \in 1..Len(ids) :
                deltas[r] = Obs(call.data, ids[r], xlevs[2]) - Obs(call.data, ids[r], xlevs[1])
           /\ IsStatOf(call.statfunction, contrast.summary, deltas)
           /\ Len(contrast.stat_array) = call.reps
           /\ SameElements(contrast.stat_array, drawn[k])
           /\ ~call.smoothboot =>
                Elems(contrast.stat_array) \subseteq ResampleStats(deltas, call.statfunction)

\* C8 witness: a paired contrast has returned for subjects whose rows come
\* in different orders in the two groups, with deltas of both signs.
C8_Witness ==
  /\ Returned("pairedcontrast")
  /\ ProperlyPaired(call.data, PairedIdx(call.idx)[1])
  /\ \E r \in 1..Len(internals.deltas[1]) : internals.deltas[1][r] > 0
  /\ \E r \in 1..Len(internals.deltas[1]) : internals.deltas[1][r] < 0
  /\ GroupArray(call.data, PairedIdx(call.idx)[1][2])
       # GroupFrame(call.data, PairedIdx(call.idx)[1][2])

\* C9: pvalue_ttest is the two-sided independent-samples t-test of the raw
\* reference and experimental arrays, and pvalue_mannWhitney is twice the
\* p-value the library Mann-Whitney test returned for the same two arrays.
C9_PValues ==
  Returned("bootstrap_contrast") =>
    LET arraylist == ArrayList(call.data, ContrastIdx(call.idx))
    IN /\ result.pvalue_ttest = TTestInd(arraylist[1], arraylist[2])
       /\ internals.mannwhitney_args = <<arraylist[1], arraylist[2]>>
       /\ result.pvalue_mannWhitney = 2 * internals.mannwhitney_p

\* C9 witness: a contrast has returned after the library gave the
\* Mann-Whitney p-value 0.5.
C9_Witness ==
  /\ Returned("bootstrap_contrast")
  /\ internals.mannwhitney_p = 500
  /\ result.pvalue_mannWhitney = 1000

\* C10: the jackknife source handed to the BCa estimator by
\* bootstrap_contrast is the original observations of both groups.
C10_JackknifeOverGroups ==
  (pc # "called" /\ internals.fn = "bootstrap_contrast") =>
    LET arraylist == ArrayList(call.data, ContrastIdx(call.idx))
    IN internals.jack_source = arraylist[1] \o arraylist[2]

(***************************************************************************)
(* Properties of two calls made one after the other.                       *)
(***************************************************************************)
\* The pending call was made after a call of fn that returned, and has
\* itself returned.
ReturnedAfter(fn) ==
  /\ pc = "returned"
  /\ previous.fn = fn
  /\ previous.raised = "none"

\* Both calls are contrasts of the same two groups, in opposite orders.
SwappedPair ==
  /\ ReturnedAfter("bootstrap_contrast")
  /\ call = SwappedCall(previous.call)

\* Both calls have the same arguments.
RepeatedPair(fn) ==
  /\ ReturnedAfter(fn)
  /\ call = previous.call

\* C11: the summary of bootstrap_contrast with idx = (A, B) is the negation
\* of the summary with idx = (B, A), whatever resamples the two calls drew.
C11_SummaryNegatesOnSwap ==
  SwappedPair => result.summary = 0 - previous.result.summary

\* C11 witness: two contrasts of swapped groups have returned with non-zero
\* summaries from different resamples.
C11_Witness ==
  /\ SwappedPair
  /\ result.summary > 0
  /\ drawn[1] # previous.drawn[2]

\* C12: swapping the group order flips and negates the bounds: pct_ci_low
\* of (B, A) is -pct_ci_high of (A, B), pct_ci_high of (B, A) is
\* -pct_ci_low of (A, B), and likewise for the BCa bounds.
C12_BoundsFlipOnSwap ==
  SwappedPair =>
    /\ result.pct_ci_low = 0 - previous.result.pct_ci_high
    /\ result.pct_ci_high = 0 - previous.result.pct_ci_low
    /\ result.bca_ci_low = 0 - previous.result.bca_ci_high
    /\ result.bca_ci_high = 0 - previous.result.bca_ci_low

\* The fields of a result that two runs of a deterministic call share.
SameResult(r, q) ==
  /\ r.summary = q.summary
  /\ r.pct_ci_low = q.pct_ci_low
  /\ r.pct_ci_high = q.pct_ci_high
  /\ r.bca_ci_low = q.bca_ci_low
  /\ r.bca_ci_high = q.bca_ci_high
  /\ r.pct_low_high_indices = q.pct_low_high_indices
  /\ r.bca_low_high_indices = q.bca_low_high_indices
  /\ Distribution(r) = Distribution(q)

\* The only generator a caller can seed, numpy's process-wide one, was in
\* the same state at the start of both calls (the signatures take no seed).
SameSeed == previous.np_random = 0

\* C13: two calls of bootstrap or bootstrap_contrast with identical inputs
\* and the same seed return identical results.
C13_RepeatableCalls ==
  ((RepeatedPair("bootstrap") \/ RepeatedPair("bootstrap_contrast")) /\ SameSeed) =>
    SameResult(result, previous.result)

\* C14: no call of bootstrap or bootstrap_contrast reads or writes
\* process-wide state: numpy's process-wide generator is where it was
\* before the session's calls.
C14_NoSharedState ==
  call.fn \in {"bootstrap", "bootstrap_contrast"} => np_random = 0

(***************************************************************************)
(* Properties of invalid input.                                            *)
(***************************************************************************)
\* The pending call has ended as the specification demands of invalid
\* input: InvalidInputError and no result.
Rejected ==
  /\ pc = "raised"
  /\ raised = "InvalidInputError"
  /\ result = NoResult

\* The resampler has returned nothing to the pending call.
NothingDrawn == \A i \in 1..Len(drawn) : drawn[i] = <<>>

\* C15: bootstrap of an empty sample fails with InvalidInputError and
\* returns no result.
C15_EmptySampleRejected ==
  (pc # "called" /\ call.fn = "bootstrap" /\ call.data = <<>>) => Rejected

\* An idx entry of bootstrap_contrast is an existing label or a position.
Resolvable(data, entry) ==
  \/ entry \in Elems(Levels(data))
  \/ entry \in 0..(Len(Levels(data)) - 1)

\* The selector of the pending call names exactly two groups (for
\* pairedcontrast: every pair of it does).
ResolvesToTwoGroups ==
  IF call.fn = "bootstrap_contrast"
    THEN /\ Len(ContrastIdx(call.idx)) = 2
         /\ \A i \in 1..2 : Resolvable(call.data, ContrastIdx(call.idx)[i])
    ELSE /\ ~PairedIdxExits(call.idx)
         /\ \A k \in 1..Len(PairedIdx(call.idx)) :
              \A i \in 1..2 : PairedIdx(call.idx)[k][i] \in Elems(Levels(call.data))

\* C16: when idx does not resolve to exactly two groups, bootstrap_contrast
\* and pairedcontrast raise InvalidInputError before any resampling and
\* return no result.
C16_UnresolvedIdxRejected ==
  (/\ pc # "called"
   /\ call.fn \in {"bootstrap_contrast", "pairedcontrast"}
   /\ ~ResolvesToTwoGroups) => (Rejected /\ NothingDrawn)

\* Some subject has observations in exactly one of the two groups.
Misaligned(data, xlevs) ==
  \E id \in IdSet(data) :
    /\ CellValues(data, id, xlevs[1]) # <<>> \/ CellValues(data, id, xlevs[2]) # <<>>
    /\ CellValues(data, id, xlevs[1]) = <<>> \/ CellValues(data, id, xlevs[2]) = <<>>

\* C17: when the two groups of a pair are not aligned by subject,
\* pairedcontrast raises InvalidInputError and computes no deltas.
C17_MisalignedPairsRejected ==
  (/\ pc # "called"
   /\ call.fn = "pairedcontrast"
   /\ ~PairedIdxExits(call.idx)
   /\ \E k \in 1..Len(PairedIdx(call.idx)) : Misaligned(call.data, PairedIdx(call.idx)[k]))
    => (Rejected /\ \A k \in 1..Len(internals.deltas) : internals.deltas[k] = <<>>)

(***************************************************************************)
(* Properties of the stability warnings.                                   *)
(***************************************************************************)
\* The warnings a result carries.
Attached(r) == IF "warnings" \in Elems(r.keys) THEN r.warnings ELSE <<>>

\* C18: the stability warnings of a call are never thrown as errors and
\* reach the caller with that call's outcome, attached to the result or
\* delivered during the call.
C18_WarningsAttached ==
  (Estimated /\ internals.warnings # <<>>) =>
    /\ raised # "UserWarning"
    /\ pc = "returned" =>
         \/ Attached(result) = internals.warnings
         \/ internals.shown = internals.warnings

\* The messages of the warnings the pending call issued.
Issued == {internals.warnings[i].message : i \in 1..Len(internals.warnings)}

\* The four indices the pending call selected.
Selected == {internals.pct[1], internals.pct[2], internals.bca[1], internals.bca[2]}

Extremal(ind, reps) == \E j \in 1..2 : ind[j] = 0 \/ ind[j] = reps - 1

\* An index pair has an index within the outer 10 samples of a tail.
Marginal(ind, reps) == \E j \in 1..2 : ind[j] < 10 \/ ind[j] >= reps - 10

C20_LowRepsExtremal ==
  (Estimated /\ call.reps = 10 /\ call.alpha = DefaultAlpha) =>
    /\ internals.pct = <<0, 9>>
    /\ Len(internals.warnings) >= 1
    /\ internals.warnings[1].message = MsgExtremal

\* C20 witness: such a call has returned with a BCa pair that differs from
\* the percentile pair.
C20_Witness ==
  /\ Returned("bootstrap")
  /\ call.reps = 10
  /\ call.alpha = DefaultAlpha
  /\ internals.bca[1] > 0
  /\ ~IsSorted(drawn[1])


(***************************************************************************)
(* The caller's input.                                                     *)
(***************************************************************************)
\* C22: bootstrap and bootstrap_contrast leave the caller's data as it was;
\* the object sorted in place is the distribution made during the call, and
\* the group arrays keep the order of the rows.
C22_InputUnchanged ==
  (Estimated /\ drawn # <<>>) =>
    /\ objects.data = call.data
    /\ internals.fn = "bootstrap" =>
         /\ objects.array = call.data
         /\ objects.statarray = internals.sorted
         /\ SameElements(objects.statarray, drawn[1])
    /\ internals.fn = "bootstrap_contrast" =>
         /\ objects.ref_array = ArrayList(call.data, ContrastIdx(call.idx))[1]
         /\ objects.exp_array = ArrayList(call.data, ContrastIdx(call.idx))[2]
         /\ objects.diff_array = internals.sorted

\* C22 witness: bootstrap has returned for a sample that is not in
\* ascending order, after sorting a distribution that was not either.
C22_Witness ==
  /\ Returned("bootstrap")
  /\ ~IsSorted(call.data)
  /\ ~IsSorted(drawn[1])
  /\ IsSorted(objects.statarray)

(***************************************************************************)
(* The group selector of bootstrap_contrast.                               *)
(***************************************************************************)
\* The level an entry of idx stands for: the entry itself when a group has
\* that label, otherwise the level at that position of first appearance.
ResolvedLevel(data, entry) ==
  IF entry \in Elems(Levels(data)) THEN entry ELSE Levels(data)[entry + 1]

\* The entries bootstrap_contrast works with: those given, or 0 and 1.
GivenOrDefault(idx) == IF idx.given THEN idx.entries ELSE <<0, 1>>

\* C24: each entry of idx (by default 0 and 1) is resolved as a label
\* first and as a position of first appearance otherwise; the first
\* resolved group is the reference, the second the experimental group.
C24_LabelBeforePosition ==
  (/\ Returned("bootstrap_contrast")
   /\ Len(GivenOrDefault(call.idx)) = 2
   /\ \A i \in 1..2 : Resolvable(call.data, GivenOrDefault(call.idx)[i])) =>
    /\ result.ref_input
         = GroupArray(call.data, ResolvedLevel(call.data, GivenOrDefault(call.idx)[1]))
    /\ result.test_input
         = GroupArray(call.data, ResolvedLevel(call.data, GivenOrDefault(call.idx)[2]))
    /\ result.summary
         = Stat(call.statfunction, result.test_input)
             - Stat(call.statfunction, result.ref_input)

\* C24 witness: a call on integer labels has returned whose idx entries
\* are labels and positions at once, of different groups.
C24_Witness ==
  /\ Returned("bootstrap_contrast")
  /\ call.idx = Idx(<<1, 0>>)
  /\ Levels(call.data) = <<1, 0>>
  /\ result.ref_input # result.test_input

(***************************************************************************)
(* The plotting layer's reading of a result.                               *)
(***************************************************************************)
\* Mutant: the entry one position further on.
PlotArrayNextEntry(bslist) == bslist[bslist.keys[7 + 2]]

\* array = list(bslist.items())[7][1]: the value of the entry at position 7,
\* counted from zero, of the ordered result.
PlotArray(bslist) == bslist[bslist.keys[7 + 1]]

\* C23: the entry plotbootstrap and plotbootstrap_hubspoke read is
\* 'stat_array' in a result of bootstrap and 'diffarray' in a result of
\* bootstrap_contrast, and holds the call's sorted distribution; this stays
\* so for the results to which pairedcontrast adds 'ttest_pval'.
C23_PlotReadsDistribution ==
  /\ Returned("bootstrap") =>
       /\ result.keys[7 + 1] = "stat_array"
       /\ PlotArray(result) = internals.sorted
  /\ Returned("bootstrap_contrast") =>
       /\ result.keys[7 + 1] = "diffarray"
       /\ PlotArray(result) = internals.sorted
  /\ Returned("pairedcontrast") =>
       \A k \in 1..Len(result.contrastList) :
         /\ result.contrastList[k].keys[7 + 1] = "stat_array"
         /\ "ttest_pval" \in Elems(result.contrastList[k].keys)
         /\ PlotArray(result.contrastList[k]) = SortAsc(drawn[k])

\* C23 witness: pairedcontrast has returned a result with 'ttest_pval'
\* added, whose distribution has more than one value.
C23_Witness ==
  /\ Returned("pairedcontrast")
  /\ Len(result.contrastList) >= 1
  /\ "ttest_pval" \in Elems(result.contrastList[1].keys)
  /\ Len(drawn[1]) >= 2
  /\ ~IsSorted(drawn[1])

\* C25: every stability warning bootstrap and bootstrap_contrast issue is
\* of the category InstabilityWarning.
C25_WarningCategory ==
  Estimated =>
    \A i \in 1..Len(internals.warnings) :
      internals.warnings[i].category = "InstabilityWarning"

(***************************************************************************)
(* pairedcontrast without idx.                                             *)
(***************************************************************************)
\* C27: without idx, pairedcontrast iterates over one pair, the first two
\* levels in sorted order, and computes exactly one paired contrast, second
\* level minus first.
C27_DefaultPair ==
  (pc # "called" /\ call.fn = "pairedcontrast" /\ call.idx.form = "none") =>
    /\ Len(PairedLoopOver(call.data, call.idx)) = 1
    /\ pc = "returned"
    /\ Len(result.contrastList) = 1
    /\ result.columns = <<ContrastName(PairedDefault(call.data))>>
    /\ internals.deltas = <<DeltaY(call.data, PairedDefault(call.data))>>

(***************************************************************************)
(* contrastplot: the contrasts of each tuple, the floating axis, and the   *)
(* rc parameters.                                                          *)
(***************************************************************************)
\* contrastplot has been called and has ended.
Plotted == pc # "called" /\ call.fn = "contrastplot"

\* The (reference, experimental) labels of the contrasts of one tuple:
\* each later group against the first.
AgainstFirst(levs) == Tup([i \in 1..(Len(levs) - 1) |-> <<levs[1], levs[i + 1]>>])

\* The same over the first n tuples, in order.
RECURSIVE AgainstFirstAll(_, _)
AgainstFirstAll(levs_tuple, n) ==
  IF n = 0 THEN <<>>
  ELSE AgainstFirstAll(levs_tuple, n - 1) \o AgainstFirst(levs_tuple[n])

\* The contrasts computed are those of labels, in that order.
ComputedAre(contrasts, labels) ==
  /\ Len(contrasts) = Len(labels)
  /\ \A j \in 1..Len(labels) :
       /\ contrasts[j].ref_input = GroupArray(call.data, labels[j][1])
       /\ contrasts[j].test_input = GroupArray(call.data, labels[j][2])

\* C26: for every tuple contrastplot processes, one contrast per group
\* after the first is computed, each against the first group; the table
\* returned has one column per contrast, in order, and as many names.
C26_ContrastsPerTuple ==
  Plotted =>
    /\ \A k \in 1..Len(internals.per_tuple) :
         internals.per_tuple[k] = Len(internals.levs_tuple[k]) - 1
    /\ ComputedAre(internals.contrasts,
                   AgainstFirstAll(internals.levs_tuple, Len(internals.per_tuple)))
    /\ pc = "returned" =>
         /\ result.contrastList = internals.contrasts
         /\ Len(result.columns) = Len(result.contrastList)
         /\ \A j \in 1..Len(result.columns) :
              /\ result.columns[j].ref = AgainstFirstAll(internals.levs_tuple,
                                              Len(internals.levs_tuple))[j][1]
              /\ result.columns[j].exp = AgainstFirstAll(internals.levs_tuple,
                                              Len(internals.levs_tuple))[j][2]

\* The same for calls whose group labels are all strings.
C26_ContrastsPerTupleOfStrings ==
  (\A i \in 1..Len(call.data) : IsStr(call.data[i].x)) => C26_ContrastsPerTuple

\* C29: for a tuple of two groups with floatContrast, the limits handed to
\* ax_right.set_ylim were assigned in the pass of that tuple, whatever the
\* effect size, and the call does not fail for want of them.
C29_RightLimitsAssigned ==
  Plotted =>
    /\ raised # "UnboundLocalError"
    /\ \A j \in 1..Len(internals.set_ylim) :
         internals.set_ylim[j].limits.of_tuple = internals.set_ylim[j].tuple

\* C30: when contrastplot or pairedcontrast has ended, by returning or
\* otherwise, every rc parameter has the value it had at the call.
C30_RcRestored ==
  (pc # "called" /\ call.fn \in {"contrastplot", "pairedcontrast"}) =>
    rcParams.now = rcParams.at_call

\* The same for calls that returned, in a process whose rc parameters were
\* seaborn's defaults at the call.
C30_RcRestoredAfterSbSet ==
  (/\ pc = "returned"
   /\ call.fn \in {"contrastplot", "pairedcontrast"}
   /\ rcParams.at_call = SbSet(RcDefaults(<<>>), "darkgrid")) =>
    rcParams.now = rcParams.at_call

(***************************************************************************)
(* The stored Mann-Whitney p-value.                                        *)
(***************************************************************************)
\* C28: 'pvalue_mannWhitney' is a probability: it lies in [0, 1] (in
\* thousandths) for every p-value in [0, 1] the library test returns.
C28_MannWhitneyIsProbability ==
  (Returned("bootstrap_contrast") /\ internals.mannwhitney_p \in 0..1000) =>
    /\ 0 <= result.pvalue_mannWhitney
    /\ result.pvalue_mannWhitney <= 1000

(***************************************************************************)
(* Degenerate resample distributions.                                      *)
(***************************************************************************)
\* The sorted distribution of the pending call holds one value only.
Collapsed ==
  /\ Estimated
  /\ \A i \in 1..Len(internals.sorted) : internals.sorted[i] = internals.sorted[1]

\* The four bounds of a result all equal v.
BoundsAt(r, v) ==
  /\ r.pct_ci_low = v
  /\ r.pct_ci_high = v
  /\ r.bca_ci_low = v
  /\ r.bca_ci_high = v

\* C21: when the resample distribution collapses to a single value v the
\* call returns without error and all four bounds equal v.
C21_CollapsedBounds ==
  Collapsed => (pc = "returned" /\ BoundsAt(result, internals.sorted[1]))

\* The same for a significance level inside (0, 1).
C21_CollapsedBoundsValidAlpha ==
  (Collapsed /\ ValidAlpha(call.alpha)) =>
    (pc = "returned" /\ BoundsAt(result, internals.sorted[1]))

====
